---- MODULE Spec2Model ----
(***************************************************************************)
(* A model of xtimer's converter layer (converters.py), of the Entry       *)
(* widget that drives it (widgets.py) and of the three-stage save and the  *)
(* load of the application state (gui.py).                                 *)
(*                                                                         *)
(* Text is a sequence of one-character strings.  Python's None is the      *)
(* record None for values, NoGroup for a group of a match and the string   *)
(* NoError for Converter.error.                                            *)
(***************************************************************************)
EXTENDS Integers, Sequences, FiniteSets

VARIABLES
    pc,        \* where the modelled session stands
    text,      \* Entry.var: the text of the editable field
    now,       \* the wall clock read by the last to_value (datetime.now())
    value,     \* what the last Entry.get() returned
    error,     \* Converter.error of the entry's converter instance
    stored,    \* the domain value the state object holds (done_datetime / time_delta)
    prior,     \* history: the stored value a field was last rendered from
    errorWas,  \* history: Converter.error before the last to_value
    calls,     \* number of to_value calls made on the converter instance
    disk,      \* [main, backup]: the content of state.pickle and .state.pickle
    mem,       \* the State object of the running application
    loaded,    \* what the last State.load returned
    hist,      \* what the running session loaded (O) and where its save stopped
    products,          \* State.products: the list of [id, name] of the running application
    next_product_id,   \* State.next_product_id
    widgets,   \* Table.widgets of the product list: a row per rendered product
    pickled    \* the State that App.persist() last saved

vars == <<pc, text, now, value, error, stored, prior, errorWas, calls, disk, mem, loaded, hist,
          products, next_product_id, widgets, pickled>>

(***************************************************************************)
(* Bounds of the model.                                                    *)
(***************************************************************************)
MaxDay == 1          \* the wall clock of a later session lies on day 0..MaxDay
MaxLen == 4          \* the longest text of the exhaustive time texts
MaxCalls == 3        \* to_value calls made on one converter instance
MaxVersion == 3      \* distinct application states written by State.save
MaxProductId == 4    \* the largest Product.id a session hands out

(***************************************************************************)
(* Python values.                                                          *)
(***************************************************************************)
None == [none |-> TRUE]
NoError == "<None>"          \* Converter.error = None
Cleared == ""                \* Converter.error = ""
NoGroup == <<"<None>">>      \* a group of a match that took no part in it

DigitChars == <<"0", "1", "2", "3", "4", "5", "6", "7", "8", "9">>

IsDigit(c) == \E i \in 1..10 : DigitChars[i] = c

DigitVal(c) == (CHOOSE i \in 1..10 : DigitChars[i] = c) - 1

IsSpace(c) == c = " "

\* re.IGNORECASE on the letters the two patterns name
Lower(c) ==
    CASE c = "A" -> "a"
      [] c = "P" -> "p"
      [] c = "M" -> "m"
      [] c = "H" -> "h"
      [] OTHER -> c

LowerText(s) == [i \in 1..Len(s) |-> Lower(s[i])]

\* int(str) of a run of digits
RECURSIVE ToInt(_)
ToInt(s) ==
    IF s = <<>> THEN 0
    ELSE ToInt(SubSeq(s, 1, Len(s) - 1)) * 10 + DigitVal(s[Len(s)])

\* str(n) of a non-negative integer
RECURSIVE IntToText(_)
IntToText(n) ==
    IF n < 10 THEN <<DigitChars[n + 1]>>
    ELSE IntToText(n \div 10) \o <<DigitChars[(n % 10) + 1]>>

\* the length of the longest run of digits of s that starts at position i
RECURSIVE DigitRun(_, _)
DigitRun(s, i) ==
    IF i <= Len(s) /\ IsDigit(s[i]) THEN 1 + DigitRun(s, i + 1) ELSE 0

\* \s* : the length of the longest run of whitespace of s that starts at i
RECURSIVE SpaceRun(_, _)
SpaceRun(s, i) ==
    IF i <= Len(s) /\ IsSpace(s[i]) THEN 1 + SpaceRun(s, i + 1) ELSE 0

(***************************************************************************)
(* datetime: a naive local time.  The part below the minute is kept as     *)
(* second and microsecond.                                                 *)
(***************************************************************************)
DateTime(d, h, m, s, us) ==
    [day |-> d, hour |-> h, minute |-> m, second |-> s, microsecond |-> us]

MinuteOf(dt) == (dt.day * 24 + dt.hour) * 60 + dt.minute

SubMinuteOf(dt) == dt.second * 1000000 + dt.microsecond

\* datetime.__lt__
Before(a, b) ==
    \/ MinuteOf(a) < MinuteOf(b)
    \/ MinuteOf(a) = MinuteOf(b) /\ SubMinuteOf(a) < SubMinuteOf(b)

\* datetime + relativedelta(hours=n)
PlusHours(dt, n) ==
    [dt EXCEPT !.day = dt.day + (dt.hour + n) \div 24,
               !.hour = (dt.hour + n) % 24]

\* datetime + relativedelta(days=n)
PlusDays(dt, n) == [dt EXCEPT !.day = dt.day + n]

(***************************************************************************)
(* TIME_RE = ^(?P<hour>\d\d??)\s*:?\s*(?P<minute>\d\d?)?\s*(?P<p>pm?|am?)?$ *)
(* with re.IGNORECASE.                                                     *)
(***************************************************************************)
\* (?P<p>pm?|am?)?$ : the texts the meridiem group and the end accept
MeridiemTexts == {<<>>, <<"p">>, <<"p", "m">>, <<"a">>, <<"a", "m">>}

\* One path of the matcher: the hour group takes hl digits and the minute
\* group ml digits (0: the group does not take part).  The whitespace runs
\* and the colon are taken greedily: what follows each of them never starts
\* with the character it would give back.
TimeMatchWith(s, hl, ml) ==
    LET i1 == hl + 1
        i2 == i1 + SpaceRun(s, i1)
        i3 == IF i2 <= Len(s) /\ s[i2] = ":" THEN i2 + 1 ELSE i2
        i4 == i3 + SpaceRun(s, i3)
        i5 == i4 + ml
        i6 == i5 + SpaceRun(s, i5)
    IN  /\ DigitRun(s, 1) >= hl
        /\ DigitRun(s, i4) >= ml
        /\ LowerText(SubSeq(s, i6, Len(s))) \in MeridiemTexts

TimeGroups(s, hl, ml) ==
    LET i1 == hl + 1
        i2 == i1 + SpaceRun(s, i1)
        i3 == IF i2 <= Len(s) /\ s[i2] = ":" THEN i2 + 1 ELSE i2
        i4 == i3 + SpaceRun(s, i3)
        i5 == i4 + ml
        i6 == i5 + SpaceRun(s, i5)
    IN  [hour |-> SubSeq(s, 1, hl),
         minute |-> IF ml = 0 THEN NoGroup ELSE SubSeq(s, i4, i5 - 1),
         p |-> IF i6 > Len(s) THEN NoGroup ELSE SubSeq(s, i6, Len(s))]

\* The order in which the backtracking matcher tries the paths: the hour is
\* lazy (\d\d??: one digit first), the minute greedy (\d\d? then absent).
TimePaths == <<<<1, 2>>, <<1, 1>>, <<1, 0>>, <<2, 2>>, <<2, 1>>, <<2, 0>>>>

\* TIME_RE.match(string).groupdict(), or None
TIME_RE(s) ==
    LET ok == {k \in 1..Len(TimePaths) : TimeMatchWith(s, TimePaths[k][1], TimePaths[k][2])}
    IN  IF ok = {} THEN None
        ELSE LET k == CHOOSE k \in ok : \A j \in ok : k <= j
             IN  TimeGroups(s, TimePaths[k][1], TimePaths[k][2])

(***************************************************************************)
(* TimeToNextDatetimeConverter                                             *)
(***************************************************************************)
\* A variant of ErrorReset: the assignment left out.
ErrorResetStale(self_error) == self_error

\* self.error = None, at the head of to_value
ErrorReset(self_error) == NoError

\* now.replace(hour=hour % 12, minute=minute, second=0, microsecond=0)
AssumeAM(n, hour, minute) == DateTime(n.day, hour % 12, minute, 0, 0)

\* A variant of BareRollForward: range(1).
BareRollForwardOnce(new_time, n) ==
    IF Before(new_time, n) THEN PlusHours(new_time, 12) ELSE new_time

\* no meridiem: for _ in range(2): if new_time < now: new_time += 12 hours
BareRollForward(new_time, n) ==
    LET t1 == IF Before(new_time, n) THEN PlusHours(new_time, 12) ELSE new_time
    IN  IF Before(t1, n) THEN PlusHours(t1, 12) ELSE t1

\* A variant of MeridiemRollForward: 12 hours more when in the past.
MeridiemRollForwardHalfDay(new_time, p, n) ==
    LET t1 == IF Lower(p[1]) = "p" THEN PlusHours(new_time, 12) ELSE new_time
    IN  IF Before(t1, n) THEN PlusHours(t1, 12) ELSE t1

\* a meridiem: 12 hours more for p/pm, then one day more when in the past
MeridiemRollForward(new_time, p, n) ==
    LET t1 == IF Lower(p[1]) = "p" THEN PlusHours(new_time, 12) ELSE new_time
    IN  IF Before(t1, n) THEN PlusDays(t1, 1) ELSE t1

\* to_value(string) of a converter whose error field holds self_error, with
\* datetime.now() = n: the value returned and the error field afterwards
TimeToValue(self_error, string, n) ==
    IF string = <<>> THEN [value |-> None, error |-> Cleared]
    ELSE
      LET groups == TIME_RE(string)
          reset == ErrorReset(self_error)
      IN  IF groups # None THEN
            LET hour == ToInt(groups.hour)
                minute == IF groups.minute = NoGroup THEN 0 ELSE ToInt(groups.minute)
            IN  IF hour < 1 \/ hour > 12
                  THEN [value |-> None, error |-> "Hour must be 1-12"]
                ELSE IF minute < 0 \/ minute > 59
                  THEN [value |-> None, error |-> "Minute must be 0-59"]
                ELSE IF groups.p = NoGroup
                  THEN [value |-> BareRollForward(AssumeAM(n, hour, minute), n),
                        error |-> reset]
                ELSE [value |-> MeridiemRollForward(AssumeAM(n, hour, minute), groups.p, n),
                      error |-> reset]
          ELSE [value |-> None, error |-> "Could not parse as time"]

\* strftime("%I") without the pad ("%#I" / "%-I"), "%M" and "%p"
Hour12(dt) == IF dt.hour % 12 = 0 THEN 12 ELSE dt.hour % 12

TwoDigits(n) == IF n < 10 THEN <<"0">> \o IntToText(n) ELSE IntToText(n)

AmPm(dt) == IF dt.hour < 12 THEN <<"A", "M">> ELSE <<"P", "M">>

\* A variant of TimeToString: the format "%#I:%M".
TimeToStringNoMeridiem(v) ==
    IF v = None THEN <<>>
    ELSE IntToText(Hour12(v)) \o <<":">> \o TwoDigits(v.minute)

\* to_string(value) with the format "%#I:%M %p" of the editable fields ("%-I"
\* off Windows), in a locale whose %p is AM / PM
TimeToString(v) ==
    IF v = None THEN <<>>
    ELSE IntToText(Hour12(v)) \o <<":">> \o TwoDigits(v.minute) \o <<" ">> \o AmPm(v)

(***************************************************************************)
(* DURATION_RE, with re.IGNORECASE:                                        *)
(***************************************************************************)
\*   ^(?:(?P<hours>\d+(?:\.\d+)?)?\s*[h:]\s*)?(?P<minutes>\d+)?m?$

\* (?P<hours>\d+(?:\.\d+)?)? at the head of s: the characters it takes.  Both
\* runs of digits are taken whole: what follows the group is never a digit.
HoursLen(s) ==
    LET d == DigitRun(s, 1)
    IN  IF d >= 1 /\ d + 1 <= Len(s) /\ s[d + 1] = "." /\ DigitRun(s, d + 2) >= 1
          THEN d + 1 + DigitRun(s, d + 2)
          ELSE d

\* (?P<minutes>\d+)?m?$ from position i of s
MinutesTail(s, i) ==
    LowerText(SubSeq(s, i + DigitRun(s, i), Len(s))) \in {<<>>, <<"m">>}

MinutesGroup(s, i) ==
    IF DigitRun(s, i) = 0 THEN NoGroup ELSE SubSeq(s, i, i + DigitRun(s, i) - 1)

\* DURATION_RE.match(string).groupdict(), or None: first with the optional
\* group (hours, whitespace, h or :, whitespace), then without it
DURATION_RE(s) ==
    LET hl == HoursLen(s)
        i2 == hl + 1 + SpaceRun(s, hl + 1)
        i3 == i2 + 1 + SpaceRun(s, i2 + 1)
    IN  IF i2 <= Len(s) /\ Lower(s[i2]) \in {"h", ":"} /\ MinutesTail(s, i3)
          THEN [hours |-> IF hl = 0 THEN NoGroup ELSE SubSeq(s, 1, hl),
                minutes |-> MinutesGroup(s, i3)]
        ELSE IF MinutesTail(s, 1)
          THEN [hours |-> NoGroup, minutes |-> MinutesGroup(s, 1)]
        ELSE None

(***************************************************************************)
(* DurationConverter.  float(str_hours) is kept as the fraction            *)
(* HoursNum / HoursDen; the texts of this model have fractions of hours    *)
(* that are multiples of 1/8, for which hours * 60 + mins is exact in      *)
(* floating point.                                                         *)
(***************************************************************************)
RECURSIVE Pow10(_)
Pow10(n) == IF n = 0 THEN 1 ELSE 10 * Pow10(n - 1)

\* float(str_hours), 0.0 when the group is absent
HoursNum(h) ==
    IF h = NoGroup THEN 0 ELSE ToInt(SelectSeq(h, LAMBDA c : c # "."))

HoursDen(h) ==
    IF h = NoGroup THEN 1 ELSE Pow10(Len(h) - DigitRun(h, 1) - (IF DigitRun(h, 1) < Len(h) THEN 1 ELSE 0))

\* round(p / q) as Python rounds: to the nearest integer, a tie to the even one
RoundHalfEven(p, q) ==
    LET f == p \div q
        r == p % q
    IN  IF 2 * r < q THEN f
        ELSE IF 2 * r > q THEN f + 1
        ELSE IF f % 2 = 0 THEN f ELSE f + 1

\* A variant of TotalMinutes: round(hours * 60) + mins.
TotalMinutesHoursRoundedAlone(hnum, hden, mins) == RoundHalfEven(hnum * 60, hden) + mins

\* total_mins = round(hours * 60 + mins)
TotalMinutes(hnum, hden, mins) == RoundHalfEven(hnum * 60 + mins * hden, hden)

\* relativedelta(minutes=total): the minutes carried into hours and days
RelativeDelta(total) ==
    [days |-> total \div 1440, hours |-> (total \div 60) % 24, minutes |-> total % 60]

DurationToValue(self_error, string) ==
    IF string = <<>> THEN [value |-> None, error |-> Cleared]
    ELSE
      LET groups == DURATION_RE(string)
          reset == ErrorReset(self_error)
      IN  IF groups # None THEN
            LET mins == IF groups.minutes = NoGroup THEN 0 ELSE ToInt(groups.minutes)
                total_mins == TotalMinutes(HoursNum(groups.hours), HoursDen(groups.hours), mins)
            IN  [value |-> RelativeDelta(total_mins),
                 error |-> IF total_mins < 0 THEN "Duration must be positive" ELSE reset]
          ELSE [value |-> None, error |-> "Could not parse as duration"]

\* to_string(value) with the template "{h}h {m}m" of the editable fields
DurationToString(v) ==
    IF v = None THEN <<>>
    ELSE IntToText(v.hours) \o <<"h", " ">> \o IntToText(v.minutes) \o <<"m">>

(***************************************************************************)
(* Entry (widgets.py) and the callbacks that store what it returns         *)
(***************************************************************************)
\* str.strip()
RECURSIVE Strip(_)
Strip(s) ==
    IF s = <<>> THEN s
    ELSE IF IsSpace(s[1]) THEN Strip(Tail(s))
    ELSE IF IsSpace(s[Len(s)]) THEN Strip(SubSeq(s, 1, Len(s) - 1))
    ELSE s

\* Entry.get(): self.converter.to_value(self.var.get().strip())
EntryGetTime(self_error, s, n) == TimeToValue(self_error, Strip(s), n)

Start == DateTime(0, 0, 0, 0, 0)

\* the content of a file: absent, empty (opened with 'wb' and nothing written
\* yet), partial (a cut pickle) or the pickle of a State
File(kind, state) == [kind |-> kind, state |-> state]

Absent == File("absent", 0)

NoDisk == [main |-> Absent, backup |-> Absent]

\* history of the running session: the State it held before its last change
\* (O), the State of that change (N, also the newest State made so far), the
\* changes it made (1, or 2 for more), how far the save of the last one got,
\* and whether the session ended in a crash
NoHist == [O |-> 0, N |-> 0, changes |-> 0, stage |-> "none", crashed |-> FALSE]

NotLoaded == [kind |-> "none", state |-> 0]

\* State(): no product yet, the first id to hand out is 1
NewState == [products |-> <<>>, next_product_id |-> 1]

InitWith(k) ==
    /\ pc = k
    /\ text = <<>>
    /\ now = Start
    /\ value = None
    /\ error = NoError
    /\ stored = None
    /\ prior = None
    /\ errorWas = NoError
    /\ calls = 0
    /\ disk = NoDisk
    /\ mem = 0
    /\ loaded = NotLoaded
    /\ hist = NoHist
    /\ products = NewState.products
    /\ next_product_id = NewState.next_product_id
    /\ widgets = <<>>
    /\ pickled = NewState

\* The user types a text of texts into a time entry while the wall clock
\* reads an instant of clock: the trace of Entry.listen runs
\* callback(self.get(), self.converter.error), and on_done_changed stores the
\* value (product.done_datetime = d).
TypeTime(texts, clock, limit) ==
    /\ pc \in {"time", "time typed"}
    /\ calls < limit
    /\ \E s \in texts, n \in clock :
         LET r == EntryGetTime(error, s, n)
         IN  /\ value' = r.value
             /\ error' = r.error
             /\ stored' = r.value
             /\ text' = s
             /\ now' = n
    /\ errorWas' = error
    /\ calls' = calls + 1
    /\ pc' = "time typed"
    /\ UNCHANGED <<prior, disk, mem, loaded, hist, products, next_product_id, widgets, pickled>>

\* The state is saved and the application started again: the widgets and
\* their converters are new, the stored value is what the state file held.
RestartTime ==
    /\ pc = "time typed"
    /\ pc' = "time restarted"
    /\ text' = <<>>
    /\ now' = Start
    /\ value' = None
    /\ error' = NoError
    /\ calls' = 0
    /\ errorWas' = NoError
    /\ UNCHANGED <<stored, prior, disk, mem, loaded, hist, products, next_product_id, widgets, pickled>>

\* ProductList.render_product: time_entry.listen(on_done_changed) and then
\* time_entry.set(product.done_datetime), whose write runs the callback.
RenderTime(clock) ==
    /\ pc = "time restarted"
    /\ \E n \in clock :
         LET s == TimeToString(stored)
             r == EntryGetTime(error, s, n)
         IN  /\ text' = s
             /\ value' = r.value
             /\ error' = r.error
             /\ stored' = r.value
             /\ now' = n
    /\ prior' = stored
    /\ errorWas' = error
    /\ calls' = calls + 1
    /\ pc' = "time rendered"
    /\ UNCHANGED <<disk, mem, loaded, hist, products, next_product_id, widgets, pickled>>

EntryGetDuration(self_error, s) == DurationToValue(self_error, Strip(s))

\* The user types a text of texts into a duration entry: on_time_changed
\* stores the value (step.time_delta = dt).
TypeDuration(texts, limit) ==
    /\ pc \in {"duration", "duration typed"}
    /\ calls < limit
    /\ \E s \in texts :
         LET r == EntryGetDuration(error, s)
         IN  /\ value' = r.value
             /\ error' = r.error
             /\ stored' = r.value
             /\ text' = s
    /\ errorWas' = error
    /\ calls' = calls + 1
    /\ pc' = "duration typed"
    /\ UNCHANGED <<now, prior, disk, mem, loaded, hist, products, next_product_id, widgets, pickled>>

RestartDuration ==
    /\ pc = "duration typed"
    /\ pc' = "duration restarted"
    /\ text' = <<>>
    /\ value' = None
    /\ error' = NoError
    /\ errorWas' = NoError
    /\ calls' = 0
    /\ UNCHANGED <<now, stored, prior, disk, mem, loaded, hist, products, next_product_id, widgets, pickled>>

\* StepList.render_step: time_entry.listen(on_time_changed) and then
\* time_entry.set(step.time_delta), whose write runs the callback.
RenderDuration ==
    /\ pc = "duration restarted"
    /\ LET s == DurationToString(stored)
           r == EntryGetDuration(error, s)
       IN  /\ text' = s
           /\ value' = r.value
           /\ error' = r.error
           /\ stored' = r.value
    /\ prior' = stored
    /\ errorWas' = error
    /\ calls' = calls + 1
    /\ pc' = "duration rendered"
    /\ UNCHANGED <<now, disk, mem, loaded, hist, products, next_product_id, widgets, pickled>>

(***************************************************************************)
(* The wall clock and the texts of the time specification                  *)
(***************************************************************************)
ClockMinutes == {0, 30}

ClockSubMinutes == {<<0, 0>>, <<0, 1>>, <<30, 0>>}

Clock(days) ==
    {DateTime(d, h, m, s[1], s[2]) :
        d \in days, h \in 0..23, m \in ClockMinutes, s \in ClockSubMinutes}

\* the instants of the first session (its day is day 0) and of a later one
ClockToday == Clock({0})

ClockLater == Clock(0..MaxDay)

HourTexts == {IntToText(h) : h \in 1..12}

MinuteTexts == {<<>>, <<":", "0", "5">>, <<":", "3", "0">>, <<"5", "9">>}

SuffixTexts == {<<>>, <<"a">>, <<"p", "m">>, <<" ", "A", "M">>, <<" ", "P", "M">>}

TimeTexts == {h \o m \o p : h \in HourTexts, m \in MinuteTexts, p \in SuffixTexts}

\* every text of at most MaxLen characters of ParseAlphabet
ParseAlphabet == {"0", "1", "2", "3", ":", " ", "p", "m", "A"}

RECURSIVE TextsUpTo(_)
TextsUpTo(n) ==
    IF n = 0 THEN {<<>>}
    ELSE LET shorter == TextsUpTo(n - 1)
         IN  shorter \cup
             {Append(t, c) : t \in {u \in shorter : Len(u) = n - 1}, c \in ParseAlphabet}

ParseTexts == TextsUpTo(MaxLen)

\* 11:00 AM and 2:00 PM
ClockParse == {DateTime(0, 11, 0, 0, 0), DateTime(0, 14, 0, 0, 0)}

InitTime == InitWith("time")

NextTime ==
    \/ TypeTime(TimeTexts, ClockToday, 1)
    \/ RestartTime
    \/ RenderTime(ClockLater)

SpecTime == InitTime /\ [][NextTime]_vars

NextParse == TypeTime(ParseTexts, ClockParse, 1)

SpecParse == InitTime /\ [][NextParse]_vars

(***************************************************************************)
(* The texts of the duration specification                                 *)
(***************************************************************************)
HoursTexts ==
    {<<>>, <<"0">>, <<"1">>, <<"2", "4">>, <<"4", "7">>, <<"1", ".", "5">>,
     <<"0", ".", "1", "2", "5">>, <<"2", ".", "2", "5">>}

SeparatorTexts == {<<"h">>, <<":">>, <<"h", " ">>, <<" ", "H">>}

MinutesTexts ==
    {<<>>, <<"0">>, <<"1">>, <<"3", "0">>, <<"9", "0">>, <<"1", "4", "4", "0">>}

UnitTexts == {<<>>, <<"m">>}

OtherDurationTexts ==
    {<<"x">>, <<"1", ".", "5">>, <<".", "5", "h">>, <<"1", ".", "h">>, <<"1", "h", "3", "0", "h">>}

DurationTexts ==
    {h \o p \o m \o u : h \in HoursTexts, p \in SeparatorTexts, m \in MinutesTexts, u \in UnitTexts}
    \cup {m \o u : m \in MinutesTexts, u \in UnitTexts}
    \cup OtherDurationTexts

InitDuration == InitWith("duration")

NextDuration ==
    \/ TypeDuration(DurationTexts, 1)
    \/ RestartDuration
    \/ RenderDuration

SpecDuration == InitDuration /\ [][NextDuration]_vars

(***************************************************************************)
(* State.save and State.load (gui.py).  A State is a number: 0 is State(), *)
(* the empty state; every change of the form makes the next number.        *)
(***************************************************************************)
\* pickle.load(f) inside try/except (EOFError, ValueError, TypeError): an
\* empty file raises EOFError, which is caught; a cut pickle raises
\* pickle.UnpicklingError, which is not
Unpickle(f) ==
    CASE f.kind = "data" -> [kind |-> "state", state |-> f.state]
      [] f.kind = "empty" -> [kind |-> "caught", state |-> 0]
      [] f.kind = "partial" -> [kind |-> "raised", state |-> 0]

\* State.load(): the backup first, then the main file, then State()
LoadResult(d) ==
    LET b == IF d.backup.kind = "absent" THEN [kind |-> "caught", state |-> 0]
             ELSE Unpickle(d.backup)
        m == IF d.main.kind = "absent" THEN [kind |-> "caught", state |-> 0]
             ELSE Unpickle(d.main)
    IN  IF b.kind # "caught" THEN b
        ELSE IF m.kind # "caught" THEN m
        ELSE [kind |-> "state", state |-> 0]

unchangedEntry ==
    UNCHANGED <<text, now, value, error, stored, prior, errorWas, calls,
                products, next_product_id, widgets, pickled>>

\* main(): App(State.load()).  An exception of load ends the start.
Load ==
    /\ pc = "down"
    /\ loaded' = LoadResult(disk)
    /\ IF loaded'.kind = "state"
         THEN /\ pc' = "running"
              /\ mem' = loaded'.state
         ELSE UNCHANGED <<pc, mem>>
    /\ UNCHANGED <<disk, hist>>
    /\ unchangedEntry

\* A callback changes the state and calls App.persist(), which calls save.
Change ==
    /\ pc = "running"
    /\ hist.N < MaxVersion
    /\ mem' = hist.N + 1
    /\ hist' = [O |-> mem, N |-> hist.N + 1,
                changes |-> IF hist.crashed \/ hist.changes = 0 THEN 1 ELSE 2,
                stage |-> "before 1", crashed |-> FALSE]
    /\ pc' = "saving"
    /\ UNCHANGED <<disk, loaded>>
    /\ unchangedEntry

SaveStep(from, to) ==
    /\ pc = "saving"
    /\ hist.stage = from
    /\ hist' = [hist EXCEPT !.stage = to]
    /\ UNCHANGED <<mem, loaded>>
    /\ unchangedEntry

\* step 1: with open(backup_file, 'wb') as f: pickle.dump(self, f)
OpenBackup ==
    /\ SaveStep("before 1", "in 1")
    /\ disk' = [disk EXCEPT !.backup = File("empty", 0)]
    /\ UNCHANGED pc

WriteBackup ==
    /\ SaveStep("in 1", "in 1")
    /\ disk.backup.kind = "empty"
    /\ disk' = [disk EXCEPT !.backup = File("partial", 0)]
    /\ UNCHANGED pc

CloseBackup ==
    /\ SaveStep("in 1", "after 1")
    /\ disk' = [disk EXCEPT !.backup = File("data", mem)]
    /\ UNCHANGED pc

\* step 2: with open(file, 'wb') as f: pickle.dump(self, f)
OpenMain ==
    /\ SaveStep("after 1", "in 2")
    /\ disk' = [disk EXCEPT !.main = File("empty", 0)]
    /\ UNCHANGED pc

WriteMain ==
    /\ SaveStep("in 2", "in 2")
    /\ disk.main.kind = "empty"
    /\ disk' = [disk EXCEPT !.main = File("partial", 0)]
    /\ UNCHANGED pc

CloseMain ==
    /\ SaveStep("in 2", "after 2")
    /\ disk' = [disk EXCEPT !.main = File("data", mem)]
    /\ UNCHANGED pc

\* step 3: os.remove(backup_file)
RemoveBackup ==
    /\ SaveStep("after 2", "after 3")
    /\ disk' = [disk EXCEPT !.backup = Absent]
    /\ pc' = "running"

\* The process dies during or after the save of the session's last change.
Crash ==
    /\ pc \in {"saving", "running"}
    /\ hist.stage # "none"
    /\ pc' = "down"
    /\ hist' = [hist EXCEPT !.crashed = TRUE]
    /\ loaded' = NotLoaded
    /\ UNCHANGED <<disk, mem>>
    /\ unchangedEntry

\* The window is closed with every change saved.
Quit ==
    /\ pc = "running"
    /\ pc' = "down"
    /\ hist' = [hist EXCEPT !.changes = 0, !.stage = "none", !.crashed = FALSE]
    /\ loaded' = NotLoaded
    /\ UNCHANGED <<disk, mem>>
    /\ unchangedEntry

InitSave == InitWith("down")

NextSave ==
    \/ Load
    \/ Change
    \/ OpenBackup \/ WriteBackup \/ CloseBackup
    \/ OpenMain \/ WriteMain \/ CloseMain
    \/ RemoveBackup
    \/ Crash
    \/ Quit

SpecSave == InitSave /\ [][NextSave]_vars

(***************************************************************************)
(* The product table: ProductList (gui.py) over Table (widgets.py).        *)
(*                                                                         *)
(* A row of Table.widgets is [product, of]: the text of the row's name     *)
(* field and the id of the Product its callbacks are bound to.  Rows are   *)
(* numbered from 0 as in the code.  The operations work on a record g of   *)
(* the objects a handler touches:                                          *)
(*   products, next_product_id   the State                                 *)
(*   widgets                     the table's rows                          *)
(*   init                        ProductList.init                          *)
(*   attached                    App.product_list is assigned              *)
(*   raised                      an AttributeError ended the handler       *)
(* A write of a name field runs on_name_change through the trace that      *)
(* Entry.listen adds, also when the text written is the text held.         *)
(***************************************************************************)
NoId == 0                 \* Product.id None; the ids handed out start at 1
NoName == <<"<None>">>    \* Product.name None

\* StringConverter.to_string
StringToString(v) == IF v = NoName THEN <<>> ELSE Strip(v)

\* StringConverter.to_value
StringToValue(string) == Strip(string)

\* Entry.get of a name field
EntryGetName(s) == StringToValue(Strip(s))

\* Table.row_exists
row_exists(ws, row) == -Len(ws) <= row /\ row < Len(ws)

\* the place of python's index row in a list
Index(ws, row) == IF row < 0 THEN Len(ws) + row + 1 ELSE row + 1

\* del list[row]
DelAt(ws, row) ==
    [i \in 1..(Len(ws) - 1) |-> IF i < Index(ws, row) THEN ws[i] ELSE ws[i + 1]]

\* Table.move(r, k, r - 1) for every key k of a row: the widgets of row r
\* replace those of row r - 1, and the emptied row r leaves the list
MoveUp(ws, r) ==
    IF ~row_exists(ws, r) THEN ws
    ELSE DelAt([ws EXCEPT ![Index(ws, r - 1)] = ws[Index(ws, r)]], r)

RECURSIVE ShiftUp(_, _, _)
\* for r in range(row + 1, len(self.widgets) + 1): move(r, k, r - 1)
ShiftUp(ws, r, stop) ==
    IF r >= stop THEN ws ELSE ShiftUp(MoveUp(ws, r), r + 1, stop)

\* Table.delete_row, for a row >= 0: remove() of the row's last key deletes
\* the row, then the rows below are shifted
delete_row(ws, row) ==
    LET removed == IF row_exists(ws, row) THEN DelAt(ws, row) ELSE ws
    IN ShiftUp(removed, row + 1, Len(removed) + 1)

\* Table.add: the new row is row len(self.widgets)
TableAdd(ws, row) == Append(ws, row)

RECURSIVE TrailingEmpty(_, _)
\* for i in range(last_index, -1, -1): if product.name: break; else: empty += 1
TrailingEmpty(ps, i) ==
    IF i < 0 THEN 0
    ELSE IF ps[i + 1].name # <<>> THEN 0
    ELSE 1 + TrailingEmpty(ps, i - 1)

\* A variant of DeleteStop: last_index - empty.
DeleteStopAll(last_index, empty) == last_index - empty

\* the stop of range(last_index, last_index - empty + 1, -1)
DeleteStop(last_index, empty) == last_index - empty + 1

RECURSIVE DeleteBlanks(_, _, _)
\* for j in range(...): self.delete_row(j); self.app.product_list.delete_row(j);
\*                      del self.state.products[j]
\* App.product_list is this table; it is not assigned yet while
\* ProductList.__init__ runs, and reading it then raises AttributeError.
DeleteBlanks(g, j, stop) ==
    IF j <= stop \/ g.raised THEN g
    ELSE IF ~g.attached
      THEN [g EXCEPT !.widgets = delete_row(@, j), !.raised = TRUE]
      ELSE DeleteBlanks([g EXCEPT !.widgets = delete_row(delete_row(@, j), j),
                                  !.products = DelAt(@, j)],
                        j - 1, stop)

RECURSIVE ensure_one_blank(_)

\* ProductList.render_product.on_name_change of the row's product, up to the
\* call of App.persist().  The time field it may set belongs to the same
\* row and changes neither the names nor the rows.
on_name_change(g, row, s) ==
    LET pid == g.widgets[row + 1].of
        named ==
            IF pid = NoId
              THEN [g EXCEPT !.products =
                                 Append(@, [id |-> g.next_product_id, name |-> s]),
                             !.next_product_id = @ + 1,
                             !.widgets[row + 1].of = g.next_product_id]
              ELSE [g EXCEPT !.products =
                                 [i \in DOMAIN g.products |->
                                    IF g.products[i].id = pid
                                      THEN [g.products[i] EXCEPT !.name = s]
                                      ELSE g.products[i]]]
    IN ensure_one_blank(named)

\* ProductList.render_product: the row is added, the callbacks listen, and
\* product_entry.set(product.name) writes the name field
render_product(g, product) ==
    LET row == Len(g.widgets)
        shown == StringToString(product.name)
        added == [g EXCEPT !.widgets =
                     TableAdd(@, [product |-> shown, of |-> product.id])]
    IN on_name_change(added, row, EntryGetName(shown))

\* ProductList.add_phantom_product
add_phantom_product(g) == render_product(g, [id |-> NoId, name |-> NoName])

\* ProductList.ensure_one_blank
ensure_one_blank(g) ==
    IF g.init \/ g.raised THEN g
    ELSE LET last_index == Len(g.products) - 1
             empty == TrailingEmpty(g.products, last_index)
         IN IF empty = 0
              THEN add_phantom_product(g)
              ELSE DeleteBlanks(g, last_index, DeleteStop(last_index, empty))

RECURSIVE RenderAll(_, _, _)
\* for product in self.state.products: self.render_product(product)
RenderAll(g, ps, i) ==
    IF i > Len(ps) THEN g ELSE RenderAll(render_product(g, ps[i]), ps, i + 1)

\* ProductList.__init__ on the state the application was started with
ProductList(state0) ==
    LET g == RenderAll([products |-> state0.products,
                        next_product_id |-> state0.next_product_id,
                        widgets |-> <<>>,
                        init |-> TRUE, attached |-> FALSE, raised |-> FALSE],
                       state0.products, 1)
    IN ensure_one_blank([g EXCEPT !.init = FALSE])

\* what a user leaves in a name field
NameTexts == {<<>>, <<" ">>, <<"a">>, <<"b", " ">>}

unchangedRest ==
    UNCHANGED <<text, now, value, error, stored, prior, errorWas, calls,
                disk, mem, loaded, hist>>

\* The user changes the name field of a row: Entry.listen's wrapper calls
\* on_name_change(self.get(), ...), which ends with App.persist().
EditName ==
    /\ pc = "products"
    /\ \E r \in 0..(Len(widgets) - 1), s \in NameTexts :
         LET g == on_name_change([products |-> products,
                                  next_product_id |-> next_product_id,
                                  widgets |-> [widgets EXCEPT ![r + 1].product = s],
                                  init |-> FALSE, attached |-> TRUE, raised |-> FALSE],
                                 r, EntryGetName(s))
         IN /\ g.next_product_id <= MaxProductId + 1
            /\ products' = g.products
            /\ next_product_id' = g.next_product_id
            /\ widgets' = g.widgets
            /\ pickled' = [products |-> g.products,
                           next_product_id |-> g.next_product_id]
    /\ UNCHANGED pc
    /\ unchangedRest

\* The window is closed and the application started again: main() builds
\* App(State.load()), whose ProductList renders the saved products.  Nothing
\* is persisted while App.init is set.
Reopen ==
    /\ pc = "products"
    /\ LET g == ProductList(pickled)
       IN /\ products' = g.products
          /\ next_product_id' = g.next_product_id
          /\ widgets' = g.widgets
          /\ pc' = IF g.raised THEN "products failed" ELSE "products"
    /\ UNCHANGED pickled
    /\ unchangedRest

\* App(State()): the first start, with no file to load
InitProducts ==
    LET g == ProductList(NewState)
    IN /\ pc = IF g.raised THEN "products failed" ELSE "products"
       /\ products = g.products
       /\ next_product_id = g.next_product_id
       /\ widgets = g.widgets
       /\ pickled = NewState
       /\ text = <<>>
       /\ now = Start
       /\ value = None
       /\ error = NoError
       /\ stored = None
       /\ prior = None
       /\ errorWas = NoError
       /\ calls = 0
       /\ disk = NoDisk
       /\ mem = 0
       /\ loaded = NotLoaded
       /\ hist = NoHist

NextProducts ==
    \/ EditName
    \/ Reopen

SpecProducts == InitProducts /\ [][NextProducts]_vars

(***************************************************************************)
(* Claims on the resolution of a time (SpecTime)                           *)
(***************************************************************************)
\* what the last to_value matched: the hour, the minute, the meridiem
Groups == TIME_RE(Strip(text))

GroupHour == ToInt(Groups.hour)

GroupMinute == IF Groups.minute = NoGroup THEN 0 ELSE ToInt(Groups.minute)

ValidBare ==
    /\ pc = "time typed"
    /\ Groups # None
    /\ Groups.p = NoGroup
    /\ GroupHour \in 1..12 /\ GroupMinute \in 0..59

ValidMeridiem ==
    /\ pc = "time typed"
    /\ Groups # None
    /\ Groups.p # NoGroup
    /\ GroupHour \in 1..12 /\ GroupMinute \in 0..59

\* today at (hour mod 12):minute, today at (hour mod 12)+12:minute and
\* tomorrow at (hour mod 12):minute
Candidates ==
    {DateTime(now.day, GroupHour % 12, GroupMinute, 0, 0),
     DateTime(now.day, (GroupHour % 12) + 12, GroupMinute, 0, 0),
     DateTime(now.day + 1, GroupHour % 12, GroupMinute, 0, 0)}

\* C1: a time with no meridiem, an hour in 1..12 and a minute in 0..59
\* resolves to a timestamp with seconds and microseconds zero that is >= now,
\* and it is the earliest of the three candidates that is >= now.
C1_BareTimeIsEarliestCandidate ==
    ValidBare =>
        /\ value # None
        /\ value.second = 0 /\ value.microsecond = 0
        /\ ~Before(value, now)
        /\ value \in Candidates
        /\ \A c \in Candidates : ~Before(c, now) => ~Before(c, value)

\* "7:30" typed at 19:30:00.000001 is 7:30 of the next morning
C1_Witness ==
    /\ ValidBare
    /\ text = <<"7", ":", "3", "0">>
    /\ now = DateTime(0, 19, 30, 0, 1)
    /\ value = DateTime(1, 7, 30, 0, 0)

IsPM == Lower(Groups.p[1]) = "p"

\* today's occurrence of the time in the stated half of the day
TodayInHalf ==
    DateTime(now.day, (GroupHour % 12) + (IF IsPM THEN 12 ELSE 0), GroupMinute, 0, 0)

\* C2: a time with an explicit meridiem resolves to today's occurrence in the
\* stated half of the day when that is >= now and to the same clock time one
\* day later otherwise; a PM is never resolved to an AM time nor an AM to a PM.
C2_MeridiemRollsAFullDay ==
    ValidMeridiem =>
        /\ value = IF Before(TodayInHalf, now)
                     THEN [TodayInHalf EXCEPT !.day = now.day + 1]
                     ELSE TodayInHalf
        /\ IsPM <=> value.hour >= 12

\* "1pm" typed at 2:00 PM is 1:00 PM of the next day
C2_Witness ==
    /\ ValidMeridiem
    /\ text = <<"1", "p", "m">>
    /\ now = DateTime(0, 14, 0, 0, 0)
    /\ value = DateTime(1, 13, 0, 0, 0)

\* C5 as stated: a timestamp t that to_value returned, formatted by to_string
\* and passed back to to_value at any now <= t, is returned as t.
C5_RoundTripAnyNow ==
    (pc = "time rendered" /\ prior # None /\ ~Before(prior, now)) => value = prior

\* C5: the round trip returns t at every now <= t that is less than one day
\* before t (so at every now between the resolution of t and t).
C5_RoundTripWithinADay ==
    (/\ pc = "time rendered"
     /\ prior # None
     /\ ~Before(prior, now)
     /\ Before([prior EXCEPT !.day = prior.day - 1], now))
        => value = prior

\* 1:00 AM of day 1, rendered as "1:00 AM" at 0:30 of day 1
C5_Witness ==
    /\ pc = "time rendered"
    /\ prior = DateTime(1, 1, 0, 0, 0)
    /\ text = <<"1", ":", "0", "0", " ", "A", "M">>
    /\ now = DateTime(1, 0, 30, 0, 0)
    /\ value = prior

(***************************************************************************)
(* Claims on the texts the time pattern takes (SpecParse)                  *)
(***************************************************************************)
\* the text is two digits and, after optional whitespace, at most a meridiem
TwoDigitHourOnly ==
    LET s == Strip(text)
    IN  /\ pc = "time typed"
        /\ DigitRun(s, 1) = 2
        /\ LowerText(SubSeq(s, 3 + SpaceRun(s, 3), Len(s))) \in MeridiemTexts

TypedNumber == ToInt(SubSeq(Strip(text), 1, 2))

\* C3: a text that is only the two-digit hour 10, 11 or 12 (with or without a
\* meridiem) resolves to that hour at minute 00; "12" is 12:00 of its half
\* day, never 00:00, another hour or a non-zero minute.
C3_TwoDigitHourAtMinuteZero ==
    (TwoDigitHourOnly /\ TypedNumber \in 10..12) =>
        /\ value # None
        /\ value.minute = 0
        /\ value.hour % 12 = TypedNumber % 12
        /\ (Strip(text) = <<"1", "2">> /\ now = DateTime(0, 11, 0, 0, 0))
              => value = DateTime(0, 12, 0, 0, 0)

\* C4: a text of exactly two digits whose number is outside 1..12 gives no
\* value and the error "Hour must be 1-12".
C4_TwoDigitsOutOfRangeRejected ==
    (TwoDigitHourOnly /\ Len(Strip(text)) = 2 /\ TypedNumber \notin 1..12) =>
        /\ value = None
        /\ error = "Hour must be 1-12"

(***************************************************************************)
(* Claims on durations (SpecDuration)                                      *)
(***************************************************************************)
\* a relativedelta as a number of minutes
InMinutes(v) == v.days * 1440 + v.hours * 60 + v.minutes

\* C6: a duration that to_value returned (any whole number of minutes >= 0,
\* 1440 and more included), rendered by to_string with "{h}h {m}m" and read
\* again by to_value, is the same duration.
C6_DurationRoundTrip ==
    (pc = "duration rendered" /\ prior # None) => value = prior

\* the text has no digit and only separator and unit characters
SeparatorsOnly ==
    LET s == Strip(text)
    IN  /\ s # <<>>
        /\ \A i \in 1..Len(s) : Lower(s[i]) \in {"h", ":", "m", " "}

\* C8: a non-empty duration text with no digit, made of separator and unit
\* characters only, gives no value and the could-not-parse error.
C8_SeparatorsOnlyRejected ==
    (pc = "duration typed" /\ SeparatorsOnly) =>
        /\ value = None
        /\ error = "Could not parse as duration"

DurationGroups == DURATION_RE(Strip(text))

\* the hours quantity of the text as the fraction HNum / HDen, and its
\* minutes quantity
HNum == HoursNum(DurationGroups.hours)

HDen == HoursDen(DurationGroups.hours)

MQuantity == IF DurationGroups.minutes = NoGroup THEN 0 ELSE ToInt(DurationGroups.minutes)

\* t is p / q rounded: the nearest integer, the even one of two nearest
IsRounded(t, p, q) ==
    /\ 2 * q * t - q <= 2 * p
    /\ 2 * p <= 2 * q * t + q
    /\ (2 * p = 2 * q * t - q \/ 2 * p = 2 * q * t + q) => t % 2 = 0

\* to_value matched the text (the empty text is returned before the match)
MatchedDuration ==
    pc = "duration typed" /\ Strip(text) # <<>> /\ DurationGroups # None

Ninety == {<<"1", "h", "3", "0", "m">>, <<"9", "0">>, <<"1", ".", "5", "h">>}

\* C9 as stated: the duration of a matched text is round(h * 60) + m minutes, the hours part
\* rounded on its own before the minutes are added.
C9_HoursRoundedThenMinutesAdded ==
    MatchedDuration =>
        /\ value # None
        /\ IsRounded(InMinutes(value) - MQuantity, HNum * 60, HDen)
        /\ text \in Ninety => InMinutes(value) = 90

\* C9: the duration of a matched non-empty text is round(h * 60 + m) minutes,
\* the sum rounded once (a tie to the even minute); "1h30m", "90" and "1.5h"
\* all give 90 minutes.
C9_SumRounded ==
    MatchedDuration =>
        /\ value # None
        /\ IsRounded(InMinutes(value), HNum * 60 + MQuantity * HDen, HDen)
        /\ text \in Ninety => InMinutes(value) = 90

\* "0.125h1m" is 7.5 + 1 minutes: 8 minutes
C9_Witness ==
    /\ MatchedDuration
    /\ text = <<"0", ".", "1", "2", "5", "h", "1", "m">>
    /\ InMinutes(value) = 8

(***************************************************************************)
(* Repeated calls on one converter instance (SpecConverter)                *)
(***************************************************************************)
ConverterTimeTexts ==
    {<<>>, <<" ">>, <<"1">>, <<"1", "p", "m">>, <<"1", "2", ":", "3", "0">>,
     <<"0">>, <<"1", "3", ":", "0", "0">>, <<"1", ":", "6", "0">>, <<"x">>, <<":", "3", "0">>}

ConverterDurationTexts ==
    {<<>>, <<" ">>, <<"9", "0">>, <<"1", "h", "3", "0", "m">>, <<"h">>,
     <<"x">>, <<"1", ".", "5">>, <<"-", "5">>}

InitConverter == InitWith("time") \/ InitWith("duration")

NextConverter ==
    \/ TypeTime(ConverterTimeTexts, ClockParse, MaxCalls)
    \/ TypeDuration(ConverterDurationTexts, MaxCalls)

SpecConverter == InitConverter /\ [][NextConverter]_vars

\* what a converter that was never used before returns for the last text
Fresh ==
    IF pc = "time typed" THEN TimeToValue(NoError, Strip(text), now)
    ELSE DurationToValue(NoError, Strip(text))

\* C7: after any sequence of to_value calls on one converter instance the
\* value and the error the caller reads depend on the last input only: a
\* value and error None for a valid text, no value and "" for the empty text,
\* no value and a message for an invalid one.
C7_ErrorOfLastCallOnly ==
    calls > 0 =>
        /\ value = Fresh.value /\ error = Fresh.error
        /\ (Strip(text) = <<>>) <=> (error = Cleared)
        /\ (value # None) <=> (error = NoError)
        /\ (value = None /\ Strip(text) # <<>>) => error \notin {NoError, Cleared}

\* a valid text after an invalid one: the earlier error is gone
C7_Witness ==
    /\ calls > 1
    /\ errorWas = "Could not parse as time"
    /\ text = <<"1", "p", "m">>
    /\ value # None
    /\ error = NoError

(***************************************************************************)
(* Claims on the three-stage save (SpecSave)                               *)
(***************************************************************************)
\* a session loaded O, changed it once to N and crashed at stage hist.stage
\* of the save; State.load has run since
LoadedAfterCrash ==
    /\ hist.crashed
    /\ hist.changes = 1
    /\ loaded.kind # "none"

\* C10: the load after a crash of save returns O when the crash is before or
\* during the write of the backup and N when it is later; it never returns a
\* state older than O, nor State() while O was not empty.
C10_CrashSafeSave ==
    LoadedAfterCrash =>
        /\ loaded.kind = "state"
        /\ hist.stage \in {"before 1", "in 1"} => loaded.state = hist.O
        /\ hist.stage \in {"after 1", "in 2", "after 2", "after 3"} => loaded.state = hist.N
        /\ loaded.state >= hist.O
        /\ hist.O # 0 => loaded.state # 0

(***************************************************************************)
(* Claims on the product table (SpecProducts)                              *)
(***************************************************************************)
\* row r (from 1) of the table shows no name
BlankRow(ws, r) == Strip(ws[r].product) = <<>>

BlankRows(ws) == {r \in 1..Len(ws) : BlankRow(ws, r)}

\* a step adds a row only by naming the blank last row, and adds one row
RowAddedOnlyAfterNamingTheLast ==
    Len(widgets') > Len(widgets) =>
        /\ Len(widgets') = Len(widgets) + 1
        /\ Len(widgets) >= 1
        /\ BlankRow(widgets, Len(widgets))
        /\ ~BlankRow(widgets', Len(widgets))

\* C11 as stated: after any sequence of edits of name fields the product
\* table is up and shows exactly one blank row, the last one; a row is added only when
\* no blank row is at the end, and a change of an already named product adds
\* no row.
C11_ExactlyOneBlankRowAndLast ==
    /\ [](/\ pc = "products"
          /\ Len(widgets) >= 1
          /\ BlankRows(widgets) = {Len(widgets)})
    /\ [][RowAddedOnlyAfterNamingTheLast]_vars

\* C11 amended: after any sequence of edits of name fields the product
\* table is up, its last row is blank and the row before it, if any, is named (a row
\* cleared above a named row stays, blank); a row is added only when no
\* blank row is at the end, and a change of an already named product adds
\* no row.
C11_OneBlankRowAtTheEnd ==
    /\ [](/\ pc = "products"
          /\ Len(widgets) >= 1
          /\ BlankRow(widgets, Len(widgets))
          /\ Len(widgets) >= 2 => ~BlankRow(widgets, Len(widgets) - 1))
    /\ [][RowAddedOnlyAfterNamingTheLast]_vars

\* the first of two named products was cleared: blank, "a", blank
C11_Witness ==
    /\ pc = "products"
    /\ Len(widgets) = 3
    /\ BlankRow(widgets, 1)
    /\ widgets[2].product = <<"a">>
    /\ BlankRow(widgets, 3)
    /\ Len(products) = 3

\* the rows of the table and the products of the state go together
RowsAreProducts ==
    pc = "products" =>
        /\ Len(widgets) = Len(products)
        /\ \A r \in 1..Len(widgets) :
              /\ widgets[r].of = products[r].id
              /\ Strip(widgets[r].product) = products[r].name

====
